---- MODULE Spec2Model ----
(***************************************************************************)
(* Backtesting engine of Apex-Trade                                        *)
(* (src/backend_fastapi/app/backtesting.py, class BacktestingEngine).      *)
(*                                                                         *)
(* Spec      one run_backtest call on the engine: reset, data check, the   *)
(*           bar-by-bar replay (signal log, _execute_trade) and            *)
(*           _calculate_performance.  The signal of a bar is drawn from    *)
(*           {BUY, SELL, HOLD}: every signal sequence is admitted.         *)
(*                                                                         *)
(* SpecSignal  _prepare_features and _generate_signal applied to a candle    *)
(*           history (a flat warm-up prefix followed by free candles) and  *)
(*           to the same history with later candles appended.              *)
(*                                                                         *)
(* Python floats are modelled as exact rationals [num, den] in lowest      *)
(* terms; float('inf') and NaN are the records Inf and NaN.                *)
(***************************************************************************)
EXTENDS Integers, Sequences, FiniteSets, TLC

(***************************************************************************)
(* Exact rational arithmetic (the model of Python float arithmetic).       *)
(***************************************************************************)
Abs(x) == IF x < 0 THEN -x ELSE x

RECURSIVE GCD(_, _)
GCD(a, b) == IF b = 0 THEN a ELSE GCD(b, a % b)

Rat(n, d) ==
    LET g == GCD(Abs(n), Abs(d))
        s == IF d < 0 THEN -1 ELSE 1
    IN  [num |-> (s * n) \div g, den |-> (s * d) \div g]

R(k) == [num |-> k, den |-> 1]

Zero == R(0)

One == R(1)

Hundred == R(100)

\* float('inf') and float('nan')
Inf == [inf |-> TRUE]

NaN == [nan |-> TRUE]

Lcm(a, b) == (a \div GCD(a, b)) * b

RAdd(x, y) ==
    LET l == Lcm(x.den, y.den)
    IN  Rat(x.num * (l \div x.den) + y.num * (l \div y.den), l)

RNeg(x) == [num |-> -x.num, den |-> x.den]

RSub(x, y) == RAdd(x, RNeg(y))

RMul(x, y) ==
    LET g1 == GCD(Abs(x.num), y.den)
        g2 == GCD(Abs(y.num), x.den)
    IN  IF x.num = 0 \/ y.num = 0 THEN Zero
        ELSE Rat((x.num \div g1) * (y.num \div g2), (x.den \div g2) * (y.den \div g1))

\* x / y for y # 0
RDiv(x, y) == RMul(x, Rat(y.den, y.num))

RLt(x, y) ==
    LET l == Lcm(x.den, y.den)
    IN  x.num * (l \div x.den) < y.num * (l \div y.den)

RLe(x, y) == x = y \/ RLt(x, y)

RGt(x, y) == RLt(y, x)

RGe(x, y) == RLe(y, x)

RMax(x, y) == IF RGt(y, x) THEN y ELSE x

(***************************************************************************)
(* Bounds of the model and the inputs of a run.                            *)
(***************************************************************************)
\* bars replayed after the warm-up index, at most
MaxBars == 4

\* line 75: first replayed index, range(100, len(df))
WarmUp == 100

\* line 60: fewer candles than this is "Insufficient historical data"
MinCandles == 100

\* Python None (a record, so that it compares with positions and results)
None == [none |-> TRUE]

Signals == {"BUY", "SELL", "HOLD"}

\* close prices a candle may have
Closes == {R(9), R(10), R(12)}

Symbols == {"BTCUSDT"}

\* run parameters of a request (BacktestRequest carries no validation)
ParamSets ==
    { [initial_balance |-> R(100), risk_per_trade |-> Rat(1, 2),
       stop_loss_pct |-> Rat(1, 10), take_profit_pct |-> Rat(1, 5)],
      [initial_balance |-> R(100), risk_per_trade |-> Rat(1, 2),
       stop_loss_pct |-> Zero, take_profit_pct |-> Zero] }

\* number of candles the data provider returns
CandleCounts == {0, MinCandles - 1} \cup (WarmUp .. WarmUp + MaxBars)

(***************************************************************************)
(* State of the engine (BacktestingEngine.__init__) and of a run.          *)
(***************************************************************************)
VARIABLES
    trades,               \* self.trades
    signals,              \* self.signals
    performance_metrics,  \* self.performance_metrics
    initial_balance,      \* self.initial_balance
    current_balance,      \* self.current_balance
    position,             \* self.position: None or the open position
    position_size,        \* self.position_size
    risk_per_trade,       \* self.risk_per_trade
    stop_loss_pct,        \* self.stop_loss_pct
    take_profit_pct,      \* self.take_profit_pct
    pc,                   \* where run_backtest is: idle, loop, done, error
    symbol,               \* argument symbol of the run
    n,                    \* len(df) of the run
    i,                    \* loop index of "for i in range(100, len(df))"
    result,               \* value returned by run_backtest
    klines,               \* SpecSignal: the candles the provider returned, per history
    df,                   \* SpecSignal: the frame _prepare_features returns, per history
    out,                  \* SpecSignal: the signals of the replayed bars, per history
    fpc,                  \* SpecSignal: data, features or signals
    tape,                 \* the arguments and candles the current run was given
    previous,             \* SpecRerun: tape and result of the run before this one
    trade_rows,           \* SpecLedger: all_trades, the Trade rows ordered by ts
    positions,            \* SpecLedger: positions, symbol -> unmatched BUY lots
    realised_pnl,         \* SpecLedger: realised_pnl, symbol -> realised P&L
    hold_times,           \* SpecLedger: hold_times
    idx,                  \* SpecLedger: rows of all_trades processed so far
    mpc,                  \* SpecLedger: where get_trade_metrics is
    response,             \* SpecLedger: value returned by get_trade_metrics
    last_row,             \* SpecCascade: latest, the row df.iloc[-1] of a bar
    verdict,              \* SpecCascade: value returned by _generate_signal, "" before
    inbox,                \* SpecServe: the requests to /backtesting/run and where each is
    replies               \* SpecServe: what the route returned to each request

vars == <<trades, signals, performance_metrics, initial_balance, current_balance,
          position, position_size, risk_per_trade, stop_loss_pct, take_profit_pct,
          pc, symbol, n, i, result, klines, df, out, fpc, tape, previous,
          trade_rows, positions, realised_pnl, hold_times, idx, mpc, response,
          last_row, verdict, inbox, replies>>

run == <<trades, signals, performance_metrics, initial_balance, current_balance,
         position, position_size, risk_per_trade, stop_loss_pct, take_profit_pct,
         pc, symbol, n, i, result>>

feature == <<klines, df, out, fpc>>

ledger == <<trade_rows, positions, realised_pnl, hold_times, idx, mpc, response>>

cascade == <<last_row, verdict>>

server == <<inbox, replies>>

engine == <<trades, current_balance, position, position_size>>

params == <<initial_balance, risk_per_trade, stop_loss_pct, take_profit_pct, symbol, n>>

\* openTime of the candle at index k: strictly increasing with the index
OpenTime(k) == k

Last(s) == s[Len(s)]

(***************************************************************************)
(* _execute_trade (lines 223-342).                                         *)
(***************************************************************************)
\* mutant: the BUY branch without the "position is None" test
CanOpenWhileOpen(pos, signal) == signal = "BUY"

\* line 231: "if self.position is None and signal == 'BUY'"
CanOpen(pos, signal) == pos = None /\ signal = "BUY"

\* mutant: the risk amount taken from the initial balance
PositionSizeOfInitial(balance, price) ==
    RDiv(RMul(initial_balance, risk_per_trade), price)

\* lines 233-234: risk_amount / current_price
PositionSize(balance, price) == RDiv(RMul(balance, risk_per_trade), price)

\* line 237
StopLossLevel(price) == RMul(price, RSub(One, stop_loss_pct))

\* line 238
TakeProfitLevel(price) == RMul(price, RAdd(One, take_profit_pct))

\* mutant: the entry time taken one bar after the opening bar
OpenPositionAtNextBar(price, size, timestamp) ==
    [entry_price |-> price,
     size        |-> size,
     stop_loss   |-> StopLossLevel(price),
     take_profit |-> TakeProfitLevel(price),
     entry_time  |-> timestamp + 1]

\* lines 241-247: the position opened at a bar
OpenPosition(price, size, timestamp) ==
    [entry_price |-> price,
     size        |-> size,
     stop_loss   |-> StopLossLevel(price),
     take_profit |-> TakeProfitLevel(price),
     entry_time  |-> timestamp]

\* mutant: the cost of the position deducted in the BUY record
BuyRecordDeducting(sd, size, balance) ==
    [timestamp      |-> sd.timestamp,
     symbol         |-> sd.symbol,
     side           |-> "BUY",
     price          |-> sd.price,
     quantity       |-> size,
     value          |-> RMul(sd.price, size),
     balance_before |-> balance,
     balance_after  |-> RSub(balance, RMul(sd.price, size)),
     status         |-> "OPEN"]

\* lines 250-260: the record of an opening BUY
BuyRecord(sd, size, balance) ==
    [timestamp      |-> sd.timestamp,
     symbol         |-> sd.symbol,
     side           |-> "BUY",
     price          |-> sd.price,
     quantity       |-> size,
     value          |-> RMul(sd.price, size),
     balance_before |-> balance,
     balance_after  |-> balance,
     status         |-> "OPEN"]

\* mutant: the stop-loss test against the entry price
StopLossHitAtEntry(price, pos) == RLe(price, pos.entry_price)

\* line 265
StopLossHit(price, pos) == RLe(price, pos.stop_loss)

\* line 290
TakeProfitHit(price, pos) == RGe(price, pos.take_profit)

\* mutant: the SELL signal tested before stop-loss and take-profit
CloseReasonSignalFirst(price, signal, pos) ==
    IF signal = "SELL" THEN "SIGNAL"
    ELSE IF StopLossHit(price, pos) THEN "STOP_LOSS"
    ELSE IF TakeProfitHit(price, pos) THEN "TAKE_PROFIT"
    ELSE "NONE"

\* mutant: a BUY signal closes an open position as a SELL signal does
CloseReasonAnySignal(price, signal, pos) ==
    IF StopLossHit(price, pos) THEN "STOP_LOSS"
    ELSE IF TakeProfitHit(price, pos) THEN "TAKE_PROFIT"
    ELSE IF signal # "HOLD" THEN "SIGNAL"
    ELSE "NONE"

\* lines 265, 290, 316: the if/elif chain of the open-position branch; "NONE"
\* when no branch is taken
CloseReason(price, signal, pos) ==
    IF StopLossHit(price, pos) THEN "STOP_LOSS"
    ELSE IF TakeProfitHit(price, pos) THEN "TAKE_PROFIT"
    ELSE IF signal = "SELL" THEN "SIGNAL"
    ELSE "NONE"

\* mutant: a stop-loss or take-profit close booked at the level that was crossed
ExitPriceAtLevel(price, pos, reason) ==
    IF reason = "STOP_LOSS" THEN pos.stop_loss
    ELSE IF reason = "TAKE_PROFIT" THEN pos.take_profit
    ELSE price

\* lines 267, 292, 318: every branch exits at current_price
ExitPrice(price, pos, reason) == price

\* mutant: entry and exit swapped
PnlSwapped(exit, pos) == RMul(RSub(pos.entry_price, exit), pos.size)

\* lines 267, 292, 318
Pnl(exit, pos) == RMul(RSub(exit, pos.entry_price), pos.size)

\* mutant: balance_before written after "+= pnl" without taking pnl off again
SellRecordSameBalance(sd, exit, pos, pnl, balance, reason) ==
    [timestamp      |-> sd.timestamp,
     symbol         |-> sd.symbol,
     side           |-> "SELL",
     price          |-> exit,
     quantity       |-> pos.size,
     value          |-> RMul(exit, pos.size),
     pnl            |-> pnl,
     pnl_pct        |-> RMul(RSub(RDiv(exit, pos.entry_price), One), Hundred),
     balance_before |-> balance,
     balance_after  |-> balance,
     status         |-> "CLOSED",
     reason         |-> reason]

\* lines 271-284, 296-309, 322-335: the record of a closing SELL; balance is
\* self.current_balance after "+= pnl"
SellRecord(sd, exit, pos, pnl, balance, reason) ==
    [timestamp      |-> sd.timestamp,
     symbol         |-> sd.symbol,
     side           |-> "SELL",
     price          |-> exit,
     quantity       |-> pos.size,
     value          |-> RMul(exit, pos.size),
     pnl            |-> pnl,
     pnl_pct        |-> RMul(RSub(RDiv(exit, pos.entry_price), One), Hundred),
     balance_before |-> RSub(balance, pnl),
     balance_after  |-> balance,
     status         |-> "CLOSED",
     reason         |-> reason]

\* mutant: newest record first
AppendTradeFirst(log, rec) == <<rec>> \o log

\* lines 250, 271, 296, 322: self.trades.append
AppendTrade(log, rec) == Append(log, rec)

ExecuteTrade(sd) ==
    LET current_price == sd.price
        signal        == sd.signal
        timestamp     == sd.timestamp
    IN  IF CanOpen(position, signal)
        THEN LET size == PositionSize(current_balance, current_price)
             IN  /\ position_size' = size
                 /\ position' = OpenPosition(current_price, size, timestamp)
                 /\ trades' = AppendTrade(trades, BuyRecord(sd, size, current_balance))
                 /\ UNCHANGED current_balance
        ELSE IF position # None /\ CloseReason(current_price, signal, position) # "NONE"
        THEN LET reason  == CloseReason(current_price, signal, position)
                 exit    == ExitPrice(current_price, position, reason)
                 pnl     == Pnl(exit, position)
                 balance == RAdd(current_balance, pnl)
             IN  /\ current_balance' = balance
                 /\ trades' = AppendTrade(trades,
                                 SellRecord(sd, exit, position, pnl, balance, reason))
                 /\ position' = None
                 /\ position_size' = Zero
        ELSE UNCHANGED engine

(***************************************************************************)
(* _calculate_performance (lines 344-417).                                 *)
(***************************************************************************)
RECURSIVE RSum(_)
RSum(s) == IF s = <<>> THEN Zero ELSE RAdd(s[1], RSum(Tail(s)))

IsClosed(t) == t.status = "CLOSED"

IsWin(t) == RGt(t.pnl, Zero)

IsLoss(t) == RLe(t.pnl, Zero)

PnlOf(s) == [k \in 1 .. Len(s) |-> s[k].pnl]

AbsPnlOf(s) == [k \in 1 .. Len(s) |-> RNeg(s[k].pnl)]

\* the ratio with 0 in place of float('inf')
ProfitFactorZero(gross_profit, gross_loss) ==
    IF RGt(gross_loss, Zero) THEN RDiv(gross_profit, gross_loss) ELSE Zero

\* line 375
ProfitFactor(gross_profit, gross_loss) ==
    IF RGt(gross_loss, Zero) THEN RDiv(gross_profit, gross_loss) ELSE Inf

\* lines 381-383
BalanceHistory(completed, initial) ==
    <<initial>> \o [k \in 1 .. Len(completed) |-> completed[k].balance_after]

\* lines 385-391: running peak and largest relative fall, over history[k..]
RECURSIVE DrawdownFrom(_, _, _, _)
DrawdownFrom(history, k, max_balance, max_drawdown) ==
    IF k > Len(history) THEN max_drawdown
    ELSE LET peak     == RMax(max_balance, history[k])
             drawdown == RDiv(RSub(peak, history[k]), peak)
         IN  DrawdownFrom(history, k + 1, peak, RMax(max_drawdown, drawdown))

\* the largest fall below the initial balance, relative to it: line 389 left out
MaxDrawdownOfInitial(history, initial) ==
    LET falls == {RMax(Zero, RDiv(RSub(initial, history[k]), initial)) :
                    k \in 1 .. Len(history)}
    IN  CHOOSE x \in falls : \A y \in falls : RGe(x, y)

MaxDrawdown(history, initial) == DrawdownFrom(history, 1, initial, Zero)

\* lines 394-396
Returns(history) ==
    [k \in 1 .. Len(history) - 1 |-> RSub(RDiv(history[k + 1], history[k]), One)]

\* lines 398-400: (avg_return / std_return) * sqrt(252), 0 when the returns have
\* no spread; the irrational value is kept as its inputs
SharpeRatio(returns) ==
    IF \A k \in 1 .. Len(returns) : returns[k] = returns[1]
    THEN Zero
    ELSE [avg_return |-> RDiv(RSum(returns), R(Len(returns))), returns |-> returns]

CalculatePerformance(all_trades, initial) ==
    LET completed_trades == SelectSeq(all_trades, IsClosed)
        wins             == SelectSeq(completed_trades, IsWin)
        losses           == SelectSeq(completed_trades, IsLoss)
        total_trades     == Len(completed_trades)
        winning_trades   == Len(wins)
        losing_trades    == Len(losses)
        gross_profit     == RSum(PnlOf(wins))
        gross_loss       == RSum(AbsPnlOf(losses))
        history          == BalanceHistory(completed_trades, initial)
    IN  IF completed_trades = <<>>
        THEN [total_trades |-> 0, winning_trades |-> 0, losing_trades |-> 0,
              win_rate |-> Zero, profit_factor |-> Zero, average_profit |-> Zero,
              average_loss |-> Zero, max_drawdown |-> Zero, sharpe_ratio |-> Zero]
        ELSE [total_trades   |-> total_trades,
              winning_trades |-> winning_trades,
              losing_trades  |-> losing_trades,
              win_rate       |-> Rat(winning_trades, total_trades),
              profit_factor  |-> ProfitFactor(gross_profit, gross_loss),
              average_profit |-> IF winning_trades > 0
                                 THEN RDiv(gross_profit, R(winning_trades)) ELSE Zero,
              average_loss   |-> IF losing_trades > 0
                                 THEN RDiv(gross_loss, R(losing_trades)) ELSE Zero,
              max_drawdown   |-> MaxDrawdown(history, initial),
              sharpe_ratio   |-> SharpeRatio(Returns(history))]

(***************************************************************************)
(* run_backtest (lines 23-110).                                            *)
(***************************************************************************)
\* get_trade_metrics is not running
LedgerOff ==
    /\ trade_rows = <<>>
    /\ positions = <<>>
    /\ realised_pnl = <<>>
    /\ hold_times = <<>>
    /\ idx = 0
    /\ mpc = "off"
    /\ response = None

\* no request to /backtesting/run is being served
ServerOff ==
    /\ inbox = <<>>
    /\ replies = <<>>

\* _generate_signal is not running on a row of its own
CascadeOff ==
    /\ last_row = None
    /\ verdict = ""

\* __init__, lines 11-21
Init ==
    /\ trades = <<>>
    /\ signals = <<>>
    /\ performance_metrics = <<>>
    /\ initial_balance = R(10000)
    /\ current_balance = Zero
    /\ position = None
    /\ position_size = Zero
    /\ risk_per_trade = Rat(2, 100)
    /\ stop_loss_pct = Rat(2, 100)
    /\ take_profit_pct = Rat(4, 100)
    /\ pc = "idle"
    /\ symbol = ""
    /\ n = 0
    /\ i = 0
    /\ result = None
    /\ klines = <<>>
    /\ df = <<>>
    /\ out = <<>>
    /\ fpc = "off"
    /\ tape = None
    /\ previous = None
    /\ LedgerOff
    /\ CascadeOff
    /\ ServerOff

\* the length test without its lower part: any non-empty list passes
InsufficientWhenEmpty(count) == count = 0

\* line 60: not historical_data or len(historical_data) < 100
Insufficient(count) == count = 0 \/ count < MinCandles

\* the call without line 48: the trade log of the run before is kept
RunStartKeepingTrades(prm, sym, count, columns_ok) ==
    /\ pc = "idle"
    /\ trades' = trades
    /\ signals' = <<>>
    /\ initial_balance' = prm.initial_balance
    /\ current_balance' = prm.initial_balance
    /\ position' = None
    /\ position_size' = Zero
    /\ risk_per_trade' = prm.risk_per_trade
    /\ stop_loss_pct' = prm.stop_loss_pct
    /\ take_profit_pct' = prm.take_profit_pct
    /\ symbol' = sym
    /\ n' = count
    /\ IF Insufficient(count)
       THEN /\ result' = [error |-> "Insufficient historical data for backtesting"]
            /\ pc' = "error"
            /\ i' = i
       ELSE IF ~columns_ok
       THEN /\ result' = [error |-> "Historical data missing required columns"]
            /\ pc' = "error"
            /\ i' = i
       ELSE /\ result' = result
            /\ pc' = "loop"
            /\ i' = WarmUp
    /\ tape' = [prm |-> prm, symbol |-> sym, count |-> count,
                 columns_ok |-> columns_ok, bars |-> <<>>]
    /\ UNCHANGED <<performance_metrics, feature, previous, server, ledger, cascade>>

\* lines 47-69: reset of the run state, then the data checks
RunStart(prm, sym, count, columns_ok) ==
    /\ pc = "idle"
    /\ trades' = <<>>
    /\ signals' = <<>>
    /\ initial_balance' = prm.initial_balance
    /\ current_balance' = prm.initial_balance
    /\ position' = None
    /\ position_size' = Zero
    /\ risk_per_trade' = prm.risk_per_trade
    /\ stop_loss_pct' = prm.stop_loss_pct
    /\ take_profit_pct' = prm.take_profit_pct
    /\ symbol' = sym
    /\ n' = count
    /\ IF Insufficient(count)
       THEN /\ result' = [error |-> "Insufficient historical data for backtesting"]
            /\ pc' = "error"
            /\ i' = i
       ELSE IF ~columns_ok
       THEN /\ result' = [error |-> "Historical data missing required columns"]
            /\ pc' = "error"
            /\ i' = i
       ELSE /\ result' = result
            /\ pc' = "loop"
            /\ i' = WarmUp
    /\ tape' = [prm |-> prm, symbol |-> sym, count |-> count,
                 columns_ok |-> columns_ok, bars |-> <<>>]
    /\ UNCHANGED <<performance_metrics, feature, previous, server, ledger, cascade>>

\* lines 75-92: one iteration of the replay loop
Step(close, signal) ==
    /\ pc = "loop"
    /\ i < n
    /\ LET signal_data == [timestamp |-> OpenTime(i), symbol |-> symbol,
                           signal |-> signal, price |-> close]
       IN  /\ signals' = Append(signals, signal_data)
           /\ ExecuteTrade(signal_data)
    /\ i' = i + 1
    /\ tape' = [tape EXCEPT !.bars = Append(@, [close |-> close, signal |-> signal])]
    /\ UNCHANGED <<performance_metrics, params, pc, result, feature, previous, server, ledger,
                   cascade>>

\* the end of the run with an open position valued at the last close
FinishMarkedToMarket ==
    /\ pc = "loop"
    /\ i = n
    /\ performance_metrics' = CalculatePerformance(trades, initial_balance)
    /\ LET marked == IF position = None THEN current_balance
                     ELSE RAdd(current_balance, Pnl(Last(signals).price, position))
       IN  result' = [success          |-> TRUE,
                      initial_balance  |-> initial_balance,
                      final_balance    |-> marked,
                      profit_loss      |-> RSub(marked, initial_balance),
                      profit_loss_pct  |-> RMul(RSub(RDiv(marked, initial_balance),
                                                     One), Hundred),
                      trades           |-> trades,
                      signals          |-> signals,
                      metrics          |-> performance_metrics']
    /\ pc' = "done"
    /\ UNCHANGED <<trades, signals, engine, params, i, feature, tape, previous, server, ledger,
                   cascade>>

\* lines 94-106: after the loop
Finish ==
    /\ pc = "loop"
    /\ i = n
    /\ performance_metrics' = CalculatePerformance(trades, initial_balance)
    /\ result' = [success          |-> TRUE,
                  initial_balance  |-> initial_balance,
                  final_balance    |-> current_balance,
                  profit_loss      |-> RSub(current_balance, initial_balance),
                  profit_loss_pct  |-> RMul(RSub(RDiv(current_balance, initial_balance),
                                                 One), Hundred),
                  trades           |-> trades,
                  signals          |-> signals,
                  metrics          |-> performance_metrics']
    /\ pc' = "done"
    /\ UNCHANGED <<trades, signals, engine, params, i, feature, tape, previous, server, ledger,
                   cascade>>

Next ==
    \/ \E prm \in ParamSets, sym \in Symbols, count \in CandleCounts,
          columns_ok \in BOOLEAN : RunStart(prm, sym, count, columns_ok)
    \/ \E close \in Closes, signal \in Signals : Step(close, signal)
    \/ Finish

Spec == Init /\ [][Next]_vars

\* bars replayed after the warm-up index in a run of SpecFair, at most
MaxFairBars == 4

FairCounts == {MinCandles - 1} \cup (WarmUp .. WarmUp + MaxFairBars)

FairCloses == {R(9), R(10)}

NextFair ==
    \/ \E prm \in ParamSets, sym \in Symbols, count \in FairCounts,
          columns_ok \in BOOLEAN : RunStart(prm, sym, count, columns_ok)
    \/ \E close \in FairCloses, signal \in Signals : Step(close, signal)
    \/ Finish

\* the control flow of lines 75-106: the guards of Step and Finish and what they
\* do to the loop index and to the position in run_backtest
Advance ==
    /\ pc = "loop"
    /\ \/ i < n /\ i' = i + 1 /\ pc' = pc
       \/ i = n /\ i' = i /\ pc' = "done"

\* SpecFair: one run whose loop iterations and final lines are taken as long as
\* there is one to take: the loop of lines 75-92 and the lines after it wait on
\* nothing
SpecFair == Init /\ [][NextFair]_vars /\ WF_<<i, pc>>(Advance)

(***************************************************************************)
(* Properties of the position manager (_execute_trade).                    *)
(***************************************************************************)
\* the step replays a bar; Bar is that bar's signal record
Replayed == pc = "loop" /\ Len(signals') = Len(signals) + 1

Bar == Last(signals')

IsPrefix(s, t) == Len(s) <= Len(t) /\ \A k \in 1 .. Len(s) : s[k] = t[k]

Count(log, side) == Cardinality({k \in 1 .. Len(log) : log[k].side = side})

\* BUY records of the log not yet followed by a closing SELL
OpenLots(log) == Count(log, "BUY") - Count(log, "SELL")

\* the bar appended exactly one record to the trade log
AppendedOne == Len(trades') = Len(trades) + 1 /\ IsPrefix(trades, trades')

\* C1: at most one position is open at any bar (the log never holds two BUY
\* records without a SELL between them, and holds one exactly when a position
\* is open); a BUY signal on a bar with an open position leaves that position
\* as it is or closes it, and never appends a BUY record.
C1_AtMostOnePosition ==
    [][Replayed =>
        /\ OpenLots(trades') = (IF position' = None THEN 0 ELSE 1)
        /\ (position # None /\ Bar.signal = "BUY") =>
              /\ position' \in {position, None}
              /\ \A k \in Len(trades) + 1 .. Len(trades') : trades'[k].side # "BUY"
              /\ position' = position => trades' = trades]_vars

\* a BUY signal arrived on a later bar than the entry and the position is the same
C1_Witness ==
    /\ position # None
    /\ signals # <<>>
    /\ Last(signals).signal = "BUY"
    /\ Last(signals).timestamp > position.entry_time
    /\ Last(trades).timestamp = position.entry_time

\* C2: on a bar with an open position the stop-loss test comes first, then
\* take-profit, then the SELL signal, and the first that applies closes the
\* position with its reason; a closing bar leaves the engine flat, an opening bar
\* leaves it open, and no bar appends more than one record.
C2_OneTransitionPerBar ==
    [][Replayed =>
        /\ Len(trades') <= Len(trades) + 1
        /\ position # None =>
              LET sl == RLe(Bar.price, position.stop_loss)
                  tp == RGe(Bar.price, position.take_profit)
              IN  /\ sl => AppendedOne /\ Last(trades').reason = "STOP_LOSS"
                  /\ (~sl /\ tp) => AppendedOne /\ Last(trades').reason = "TAKE_PROFIT"
                  /\ (~sl /\ ~tp /\ Bar.signal = "SELL") =>
                        AppendedOne /\ Last(trades').reason = "SIGNAL"
                  /\ (~sl /\ ~tp /\ Bar.signal # "SELL") => trades' = trades
                  /\ trades' # trades => position' = None /\ Last(trades').side = "SELL"
        /\ position = None =>
              /\ trades' # trades =>
                    AppendedOne /\ Last(trades').side = "BUY" /\ position' # None
              /\ trades' = trades => position' = None]_vars

\* a stop-loss close on a bar whose signal was SELL
C2_Witness ==
    /\ trades # <<>>
    /\ Last(trades).side = "SELL"
    /\ Last(trades).reason = "STOP_LOSS"
    /\ Last(signals).signal = "SELL"
    /\ Last(signals).timestamp = Last(trades).timestamp

\* C3: a closing bar books pnl = (exit price - entry price) * size of the closed
\* position, adds that pnl to current_balance, and its record has
\* balance_before = the balance before the bar, balance_after = the balance
\* after it = balance_before + pnl.
C3_CloseBooksPnl ==
    [][(Replayed /\ position # None /\ trades' # trades) =>
        LET rec == Last(trades')
        IN  /\ rec.status = "CLOSED"
            /\ rec.reason \in {"STOP_LOSS", "TAKE_PROFIT", "SIGNAL"}
            /\ rec.pnl = RSub(RMul(rec.price, position.size),
                              RMul(position.entry_price, position.size))
            /\ current_balance' = RAdd(current_balance, rec.pnl)
            /\ rec.balance_before = current_balance
            /\ rec.balance_after = current_balance'
            /\ rec.balance_after = RAdd(rec.balance_before, rec.pnl)]_vars

\* a close that booked a loss and one that booked a gain are both in the log
C3_Witness ==
    /\ \E k \in 1 .. Len(trades) : trades[k].side = "SELL" /\ RLt(trades[k].pnl, Zero)
    /\ \E k \in 1 .. Len(trades) : trades[k].side = "SELL" /\ RGt(trades[k].pnl, Zero)

\* a percentage parameter in (0, 1]
ValidPct(x) == RGt(x, Zero) /\ RLe(x, One)

\* C4: a close caused by price <= stop_loss is booked at the stop price: the
\* STOP_LOSS record's price is the stop_loss level of the closed position
\* (stated for stop_loss_pct in (0, 1]).
C4_StopLossAtStopPrice ==
    [][(Replayed /\ position # None /\ ValidPct(stop_loss_pct)
          /\ RLe(Bar.price, position.stop_loss)) =>
        /\ Last(trades').reason = "STOP_LOSS"
        /\ Last(trades').price = position.stop_loss]_vars

\* C5: a close caused by price >= take_profit is booked at the take-profit
\* price: the TAKE_PROFIT record's price is the take_profit level of the closed
\* position and its pnl_pct is take_profit_pct in percent (stated for
\* stop_loss_pct and take_profit_pct in (0, 1]).
C5_TakeProfitAtTargetPrice ==
    [][(Replayed /\ position # None /\ trades' # trades
          /\ ValidPct(stop_loss_pct) /\ ValidPct(take_profit_pct)
          /\ Last(trades').reason = "TAKE_PROFIT") =>
        /\ Last(trades').price = position.take_profit
        /\ Last(trades').pnl_pct = RMul(take_profit_pct, Hundred)]_vars

\* C6: a BUY signal while flat opens a position with size * entry_price =
\* current_balance * risk_per_trade, stop_loss = entry_price - entry_price *
\* stop_loss_pct and take_profit = entry_price + entry_price * take_profit_pct,
\* entry_price being the bar's close and current_balance the balance before the
\* bar (which earlier closes have changed).
C6_OpenSizing ==
    [][(Replayed /\ position = None /\ Bar.signal = "BUY") =>
        /\ position' # None
        /\ position'.entry_price = Bar.price
        /\ position'.entry_time = Bar.timestamp
        /\ RMul(position'.size, Bar.price) = RMul(current_balance, risk_per_trade)
        /\ position'.stop_loss = RSub(Bar.price, RMul(Bar.price, stop_loss_pct))
        /\ position'.take_profit = RAdd(Bar.price, RMul(Bar.price, take_profit_pct))
        /\ position_size' = position'.size
        /\ Last(trades').quantity = position'.size]_vars

\* a position opened after a close that changed the balance
C6_Witness ==
    /\ position # None
    /\ current_balance # initial_balance
    /\ Last(trades).side = "BUY"
    /\ Last(trades).balance_before = current_balance

\* C7: an opening bar leaves current_balance as it was; its BUY record has
\* balance_before = balance_after = that balance and carries no pnl.
C7_OpenKeepsBalance ==
    [][(Replayed /\ position = None /\ position' # None) =>
        /\ current_balance' = current_balance
        /\ AppendedOne
        /\ Last(trades').side = "BUY"
        /\ Last(trades').status = "OPEN"
        /\ Last(trades').balance_before = current_balance
        /\ Last(trades').balance_after = current_balance
        /\ "pnl" \notin DOMAIN Last(trades')]_vars

\* a position was opened on the last bar, after an earlier close
C7_Witness ==
    /\ position # None
    /\ Len(trades) >= 3
    /\ Last(signals).timestamp = position.entry_time
    /\ Last(trades).balance_after = current_balance

\* C8: a bar with no applicable transition (flat with SELL or HOLD; open with
\* HOLD or BUY and stop_loss < price < take_profit) leaves the position, the
\* balance and the trade log as they were.
C8_NoTransition ==
    [][(Replayed /\
          \/ position = None /\ Bar.signal \in {"SELL", "HOLD"}
          \/ /\ position # None
             /\ Bar.signal \in {"HOLD", "BUY"}
             /\ RLt(position.stop_loss, Bar.price)
             /\ RLt(Bar.price, position.take_profit)) =>
        UNCHANGED <<position, position_size, current_balance, trades>>]_vars

\* the last bar had a BUY signal strictly inside the band of the open position
C8_Witness ==
    /\ position # None
    /\ Last(signals).timestamp > position.entry_time
    /\ Last(signals).signal = "BUY"
    /\ RLt(position.stop_loss, Last(signals).price)
    /\ RLt(Last(signals).price, position.take_profit)
    /\ Last(signals).price # position.entry_price

\* C9: within a run the trade log only grows at its end: each bar, and the
\* performance calculation, leave the log they found as a prefix of the log
\* they leave, and the returned log is the engine's log.
C9_AppendOnly ==
    [][pc = "loop" =>
        /\ IsPrefix(trades, trades')
        /\ pc' = "done" => trades' = trades /\ result'.trades = trades]_vars

\* the performance calculation ran over a log of two round trips
C9_Witness ==
    /\ pc = "done"
    /\ Len(trades) >= 4
    /\ performance_metrics.total_trades = 2

(***************************************************************************)
(* SpecRerun: run_backtest called again and again on the module's one      *)
(* engine (line 420), which keeps its fields from call to call.            *)
(***************************************************************************)
\* bars replayed after the warm-up index in a run of SpecRerun, at most
MaxRerunBars == 2

RerunCounts == {MinCandles - 1} \cup (WarmUp .. WarmUp + MaxRerunBars)

RerunCloses == {R(9), R(12)}

RerunSignals == {"BUY", "HOLD"}

\* lines 61, 69, 97-110: run_backtest has returned; the caller may call again
Return ==
    /\ pc \in {"done", "error"}
    /\ pc' = "idle"
    /\ previous' = [tape |-> tape, result |-> result]
    /\ UNCHANGED <<trades, signals, performance_metrics, engine, params, i, result,
                   tape, feature, ledger, cascade, server>>

NextRerun ==
    \/ \E prm \in ParamSets, sym \in Symbols, count \in RerunCounts,
          columns_ok \in BOOLEAN : RunStart(prm, sym, count, columns_ok)
    \/ \E close \in RerunCloses, signal \in RerunSignals : Step(close, signal)
    \/ Finish
    \/ Return

SpecRerun == Init /\ [][NextRerun]_vars

(***************************************************************************)
(* Properties of the driver (run_backtest).                                *)
(***************************************************************************)
\* the step is a call of run_backtest up to its data checks
Started == pc = "idle" /\ pc' # "idle"

\* the value is the error result with the given message, and nothing else
IsError(res, msg) == DOMAIN res = {"error"} /\ res.error = msg

\* C11: a run given fewer than 100 candles (none included, which is also what a
\* provider failure yields), or candles without a required column, returns an
\* error result and leaves no trade, no signal and no report; a run given 100
\* or more well-formed candles enters the replay, and the result it returns in
\* the end is not an error.
C11_InsufficientData ==
    [][/\ Started /\ tape'.count < 100
          => /\ IsError(result', "Insufficient historical data for backtesting")
             /\ pc' = "error" /\ trades' = <<>> /\ signals' = <<>>
       /\ Started /\ tape'.count >= 100 /\ ~tape'.columns_ok
          => /\ IsError(result', "Historical data missing required columns")
             /\ pc' = "error" /\ trades' = <<>> /\ signals' = <<>>
       /\ Started /\ tape'.count >= 100 /\ tape'.columns_ok
          => pc' = "loop"
       /\ pc' = "done"
          => /\ tape'.count >= 100 /\ tape'.columns_ok
             /\ "error" \notin DOMAIN result' /\ result'.success]_vars

\* the step is the return of run_backtest to its caller
Returned == pc \in {"done", "error"} /\ pc' = "idle"

\* C12: a run depends on its candles and parameters only.  Every call starts
\* from the same run state whatever the engine held before (empty trade and
\* signal logs, no position, balance and percentages as given), and a run given
\* the candles and parameters of the run before it on the same engine returns
\* the same result: trade log, signal log, final balance and metrics.
C12_Deterministic ==
    [][/\ Started
          => /\ trades' = <<>> /\ signals' = <<>>
             /\ position' = None /\ position_size' = Zero
             /\ initial_balance' = tape'.prm.initial_balance
             /\ current_balance' = tape'.prm.initial_balance
             /\ risk_per_trade' = tape'.prm.risk_per_trade
             /\ stop_loss_pct' = tape'.prm.stop_loss_pct
             /\ take_profit_pct' = tape'.prm.take_profit_pct
       /\ Returned /\ previous # None /\ previous.tape = tape
          => result = previous.result]_vars

\* a run with a booked close has finished after a run of the same candles and
\* parameters on the same engine, with the same result
C12_Witness ==
    /\ pc = "done" /\ previous # None /\ previous.tape = tape
    /\ Len(result.trades) >= 2
    /\ result.metrics.total_trades >= 1
    /\ result = previous.result

\* the balance after the last close of the log, the given balance if it has none
RECURSIVE LastBooked(_, _)
LastBooked(log, initial) ==
    IF log = <<>> THEN initial
    ELSE IF Last(log).side = "SELL" THEN Last(log).balance_after
    ELSE LastBooked(SubSeq(log, 1, Len(log) - 1), initial)

\* C13: a run that entered the replay comes to its end, which is after the last
\* candle (i = len(df)); the end appends no record and closes nothing: a
\* position open then is still open, its BUY record is the last of the log, and
\* final_balance is the balance after the last booked close (the initial
\* balance when nothing closed).
C13_NoForceClose ==
    /\ [][pc = "loop" /\ pc' = "done"
            => /\ i = n /\ Len(signals) = n - 100
               /\ trades' = trades /\ result'.trades = trades
               /\ position' = position /\ current_balance' = current_balance
               /\ position # None => Last(trades).side = "BUY"
               /\ result'.final_balance = LastBooked(trades, initial_balance)
               /\ result'.profit_loss
                    = RSub(LastBooked(trades, initial_balance), initial_balance)]_vars
    /\ (pc = "loop") ~> (pc = "done")

\* a run has ended with a position open whose entry price is not the last
\* close, after an earlier close changed the balance
C13_Witness ==
    /\ pc = "done" /\ position # None
    /\ Last(signals).price # position.entry_price
    /\ Last(trades).side = "BUY" /\ Len(trades) = 3
    /\ result.final_balance # initial_balance
    /\ result.final_balance = trades[2].balance_after

\* a run given 99 candles has returned the error, and holds no trade or signal
C11_Witness ==
    /\ pc = "error" /\ tape.count = 99 /\ tape.columns_ok
    /\ IsError(result, "Insufficient historical data for backtesting")
    /\ trades = <<>> /\ signals = <<>>

(***************************************************************************)
(* _prepare_features (lines 138-182).  A column is read at a pandas index  *)
(* t >= 0; cl is the close column, cl[t + 1] the close at index t.         *)
(***************************************************************************)
\* free candles after the warm-up prefix of a history, at most
MaxFree == 2

\* the two histories that are compared: history 2 stops at some bar, history 1
\* has the same candles up to that bar and may have later ones
Runs == {1, 2}

\* float division: x / 0 is inf for x > 0 and NaN for x = 0
FDiv(x, y) ==
    IF x = NaN \/ y = NaN THEN NaN
    ELSE IF y = Zero THEN (IF x = Zero THEN NaN ELSE Inf)
    ELSE RDiv(x, y)

\* sum of column values f[a + 1 .. b + 1], the pandas indexes a .. b (summed by
\* halves, which keeps the evaluation shallow; the sum is exact either way)
RECURSIVE SumOver(_, _, _)
SumOver(f, a, b) ==
    IF a > b THEN Zero
    ELSE IF a = b THEN f[a + 1]
    ELSE RAdd(SumOver(f, a, (a + b) \div 2), SumOver(f, (a + b) \div 2 + 1, b))

\* rolling(window=w).mean() at index t: NaN until w values are there
RollingMean(f, t, w) ==
    IF t < w - 1 THEN NaN ELSE RDiv(SumOver(f, t - w + 1, t), R(w))

\* line 143: close.diff(), NaN at index 0
Delta(cl, t) == IF t = 0 THEN NaN ELSE RSub(cl[t + 1], cl[t])

\* line 144: delta.where(delta > 0, 0)
Gain(cl) ==
    [k \in 1 .. Len(cl) |->
        IF k > 1 /\ RGt(Delta(cl, k - 1), Zero) THEN Delta(cl, k - 1) ELSE Zero]

\* line 145: -delta.where(delta < 0, 0)
Loss(cl) ==
    [k \in 1 .. Len(cl) |->
        IF k > 1 /\ RLt(Delta(cl, k - 1), Zero) THEN RNeg(Delta(cl, k - 1)) ELSE Zero]

\* mutant: a zero average loss gives 100 whatever the average gain is
RsiHundredWithoutLoss(avg_gain, avg_loss) ==
    IF avg_gain = NaN \/ avg_loss = NaN THEN NaN
    ELSE IF avg_loss = Zero THEN Hundred
    ELSE RSub(Hundred, RDiv(Hundred, RAdd(One, RDiv(avg_gain, avg_loss))))

\* lines 148-149: rs = avg_gain / avg_loss; rsi = 100 - (100 / (1 + rs))
Rsi(avg_gain, avg_loss) ==
    LET rs == FDiv(avg_gain, avg_loss)
    IN  IF rs = NaN THEN NaN
        ELSE IF rs = Inf THEN Hundred
        ELSE RSub(Hundred, RDiv(Hundred, RAdd(One, rs)))

\* ewm(span, adjust=False).mean(): one step, alpha = 2 / (span + 1)
EwmStep(prev, x, span) ==
    RAdd(RMul(Rat(span - 1, span + 1), prev), RMul(Rat(2, span + 1), x))

\* lines 157-161: ema_12, ema_26, macd and macd_signal of the next index, from
\* those of the index before it and the next close x
MacdStep(prev, x) ==
    LET ema_12 == EwmStep(prev.ema_12, x, 12)
        ema_26 == EwmStep(prev.ema_26, x, 26)
        macd   == RSub(ema_12, ema_26)
    IN  [ema_12 |-> ema_12, ema_26 |-> ema_26, macd |-> macd,
         macd_signal |-> EwmStep(prev.macd_signal, macd, 9)]

\* the four columns carried from index t - 1 (state) up to index last, in index
\* order: first up to the middle index, then from there on (the halving and the
\* test on the first half's value keep the evaluation shallow)
RECURSIVE MacdFrom(_, _, _, _)
MacdFrom(state, cl, t, last) ==
    IF t > last THEN state
    ELSE IF t = last THEN MacdStep(state, cl[t + 1])
    ELSE LET mid  == (t + last) \div 2
             half == MacdFrom(state, cl, t, mid)
         IN  IF half.macd_signal = NaN THEN half
             ELSE MacdFrom(half, cl, mid + 1, last)

\* ewm(adjust=False) starts each column at its first value
Macd(cl, t) ==
    MacdFrom([ema_12 |-> cl[1], ema_26 |-> cl[1], macd |-> Zero, macd_signal |-> Zero],
             cl, 1, t)

\* line 165: rolling(window=20).std() squared: the sample variance (ddof = 1)
RollingVar(f, t, w) ==
    IF t < w - 1 THEN NaN
    ELSE LET mean == RollingMean(f, t, w)
             sq   == [k \in 1 .. Len(f) |->
                         IF k - 1 \in (t - w + 1) .. t
                         THEN RMul(RSub(f[k], mean), RSub(f[k], mean)) ELSE Zero]
         IN  IF mean = NaN THEN NaN ELSE RDiv(SumOver(sq, t - w + 1, t), R(w - 1))

\* line 170: pct_change(periods=10) * 100
Momentum(cl, t) ==
    IF t < 10 THEN NaN
    ELSE RMul(RSub(RDiv(cl[t + 1], cl[t - 9]), One), Hundred)

\* lines 143-173: the row of index t before the fill.  bb_std is kept as its
\* square bb_var (bb_upper and bb_lower are bb_middle +- 2 * sqrt(bb_var));
\* volatility, 100 * sqrt(bb_var) / bb_middle, is not read by any rule and left out
RawRow(cl, t) ==
    LET m == Macd(cl, t)
    IN  [close       |-> cl[t + 1],
         rsi         |-> Rsi(RollingMean(Gain(cl), t, 14), RollingMean(Loss(cl), t, 14)),
         sma_20      |-> RollingMean(cl, t, 20),
         sma_50      |-> RollingMean(cl, t, 50),
         sma_200     |-> RollingMean(cl, t, 200),
         ema_12      |-> m.ema_12,
         ema_26      |-> m.ema_26,
         macd        |-> m.macd,
         macd_signal |-> m.macd_signal,
         macd_hist   |-> RSub(m.macd, m.macd_signal),
         bb_middle   |-> RollingMean(cl, t, 20),
         bb_var      |-> RollingVar(cl, t, 20),
         momentum    |-> Momentum(cl, t)]

\* the rows of the indexes t .. last before the fill, in index order
RECURSIVE RawRows(_, _, _)
RawRows(cl, t, last) ==
    IF t > last THEN <<>> ELSE <<RawRow(cl, t)>> \o RawRows(cl, t + 1, last)

\* line 176, one row: a NaN takes the value the filled row below it has in that
\* column
FillRow(row, below) ==
    [col \in DOMAIN row |-> IF row[col] = NaN THEN below[col] ELSE row[col]]

\* line 176: fillna(method='bfill'): a NaN takes the next valid value below it
\* in its column, and stays NaN when there is none
RECURSIVE Bfill(_)
Bfill(rows) ==
    IF Len(rows) <= 1 THEN rows
    ELSE LET rest == Bfill(Tail(rows))
         IN  <<FillRow(rows[1], rest[1])>> \o rest

\* the frame returned for the close column cl: the rows the replay reads, those
\* of the indexes WarmUp .. len - 1 (a fill never moves a value downwards, so
\* the rows above them do not reach these); row k is the row of index
\* WarmUp + k - 1
PrepareFeatures(cl) == Bfill(RawRows(cl, WarmUp, Len(cl) - 1))

(***************************************************************************)
(* _generate_signal (lines 184-221).                                       *)
(***************************************************************************)
\* float comparisons: false when a side is NaN
Lt(x, y) == x # NaN /\ y # NaN /\ RLt(x, y)

Gt(x, y) == Lt(y, x)

\* lines 212, 214 with bb_lower = bb_middle - 2 * sqrt(bb_var)
BelowLower(close, mid, var) ==
    /\ mid # NaN /\ var # NaN
    /\ RGt(RSub(mid, close), Zero)
    /\ RGt(RMul(RSub(mid, close), RSub(mid, close)), RMul(R(4), var))

AboveUpper(close, mid, var) ==
    /\ mid # NaN /\ var # NaN
    /\ RGt(RSub(close, mid), Zero)
    /\ RGt(RMul(RSub(close, mid), RSub(close, mid)), RMul(R(4), var))

\* lines 194-197
RsiRule(latest, signal) ==
    IF Lt(latest.rsi, R(30)) THEN "BUY"
    ELSE IF Gt(latest.rsi, R(70)) THEN "SELL"
    ELSE signal

\* lines 200-203
MaRule(latest, signal) ==
    IF Gt(latest.sma_20, latest.sma_50) /\ Gt(latest.close, latest.sma_20) THEN "BUY"
    ELSE IF Lt(latest.sma_20, latest.sma_50) /\ Lt(latest.close, latest.sma_20)
    THEN "SELL"
    ELSE signal

\* lines 206-209
MacdRule(latest, signal) ==
    IF Gt(latest.macd, latest.macd_signal) /\ Gt(latest.macd_hist, Zero) THEN "BUY"
    ELSE IF Lt(latest.macd, latest.macd_signal) /\ Lt(latest.macd_hist, Zero)
    THEN "SELL"
    ELSE signal

\* lines 212-215
BollingerRule(latest, signal) ==
    IF BelowLower(latest.close, latest.bb_middle, latest.bb_var) THEN "BUY"
    ELSE IF AboveUpper(latest.close, latest.bb_middle, latest.bb_var) THEN "SELL"
    ELSE signal

\* the four rules in the opposite order: the RSI rule has the last word
GenerateSignalRsiLast(latest) ==
    RsiRule(latest, MaRule(latest, MacdRule(latest, BollingerRule(latest, "HOLD"))))

GenerateSignal(latest) ==
    BollingerRule(latest, MacdRule(latest, MaRule(latest, RsiRule(latest, "HOLD"))))

(***************************************************************************)
(* SpecSignal: lines 72-80 of run_backtest on the histories of Runs.       *)
(***************************************************************************)
InitSignal ==
    /\ \E base \in Closes : klines = [r \in Runs |-> [flat |-> base, later |-> <<>>]]
    /\ df = <<>>
    /\ out = <<>>
    /\ fpc = "data"
    /\ trades = <<>>
    /\ signals = <<>>
    /\ performance_metrics = <<>>
    /\ initial_balance = R(10000)
    /\ current_balance = Zero
    /\ position = None
    /\ position_size = Zero
    /\ risk_per_trade = Rat(2, 100)
    /\ stop_loss_pct = Rat(2, 100)
    /\ take_profit_pct = Rat(4, 100)
    /\ pc = "off"
    /\ symbol = ""
    /\ n = 0
    /\ i = 0
    /\ result = None
    /\ tape = None
    /\ previous = None
    /\ LedgerOff
    /\ CascadeOff
    /\ ServerOff

\* the close column of a history: candles 0 .. WarmUp - 1 close at h.flat, the
\* candles after them at the prices of h.later
CloseColumn(h) == [k \in 1 .. WarmUp |-> h.flat] \o h.later

\* the data provider returns one more candle, to both histories
Candle(close) ==
    /\ fpc = "data"
    /\ klines[1] = klines[2]
    /\ Len(klines[1].later) < MaxFree
    /\ klines' = [r \in Runs |-> [klines[r] EXCEPT !.later = Append(@, close)]]
    /\ UNCHANGED <<df, out, fpc, run, tape, previous, server, ledger, cascade>>

\* a candle after the last bar of history 2, which history 1 alone has
LaterCandle(close) ==
    /\ fpc = "data"
    /\ Len(klines[1].later) < MaxFree
    /\ klines' = [klines EXCEPT ![1].later = Append(@, close)]
    /\ UNCHANGED <<df, out, fpc, run, tape, previous, server, ledger, cascade>>

\* line 72
Prepare ==
    /\ fpc = "data"
    /\ df' = [r \in Runs |-> PrepareFeatures(CloseColumn(klines[r]))]
    /\ fpc' = "features"
    /\ UNCHANGED <<klines, out, run, tape, previous, server, ledger, cascade>>

\* lines 75-80: the signal of every replayed bar, in pandas index order
Generate ==
    /\ fpc = "features"
    /\ out' = [r \in Runs |->
                 [k \in 1 .. Len(df[r]) |-> GenerateSignal(df[r][k])]]
    /\ fpc' = "signals"
    /\ UNCHANGED <<klines, df, run, tape, previous, server, ledger, cascade>>

NextSignal ==
    \/ \E close \in Closes : Candle(close)
    \/ \E close \in Closes : LaterCandle(close)
    \/ Prepare
    \/ Generate

SpecSignal == InitSignal /\ [][NextSignal]_vars

AvgLossAt(r, k) == RollingMean(Loss(CloseColumn(klines[r])), WarmUp + k - 1, 14)

\* C21: the RSI of a bar whose 14-period average loss is zero is 100, never
\* NaN, whether the window holds gains only or no price change at all.
C21_RsiWithoutLosses ==
    fpc = "features" =>
        \A r \in Runs : \A k \in 1 .. Len(df[r]) :
            AvgLossAt(r, k) = Zero => df[r][k].rsi = Hundred

(***************************************************************************)
(* SpecLedger: the stored trades (routes/trade.py, lines 80-89) and the     *)
(* metrics computed from them: _calculate_realised_pnl_and_hold_times      *)
(* (routes/metrics.py, lines 77-133) and get_trade_metrics (lines 136-200).*)
(***************************************************************************)
\* rows in the Trade table, at most
MaxRows == 3

\* str.upper() on the strings of the model
Upper(s) ==
    CASE s = "btcusdt" -> "BTCUSDT"
      [] s = "ethusdt" -> "ETHUSDT"
      [] s = "buy" -> "BUY"
      [] s = "sell" -> "SELL"
      [] OTHER -> s

\* symbol and side as a trade request carries them
RequestSymbols == {"btcusdt", "ETHUSDT"}

RequestSides == {"BUY", "sell"}

RowSizes == {R(1), R(2)}

RowPrices == {R(9), R(12)}

\* trade.py line 86: the time of the k-th stored trade in milliseconds; the
\* trades are 1.5 s apart
RowTs(k) == 1500 * k

RMin(x, y) == IF RLt(y, x) THEN y ELSE x

\* a dict: the mapping with the key set to the value, the key added if absent
Put(dict, key, value) ==
    [k \in DOMAIN dict \cup {key} |-> IF k = key THEN value ELSE dict[k]]

\* dict.setdefault(key, value) as a mapping
SetDefault(dict, key, value) ==
    IF key \in DOMAIN dict THEN dict ELSE Put(dict, key, value)

InitLedger ==
    /\ trade_rows = <<>>
    /\ positions = <<>>
    /\ realised_pnl = <<>>
    /\ hold_times = <<>>
    /\ idx = 0
    /\ mpc = "db"
    /\ response = None
    /\ trades = <<>>
    /\ signals = <<>>
    /\ performance_metrics = <<>>
    /\ initial_balance = R(10000)
    /\ current_balance = Zero
    /\ position = None
    /\ position_size = Zero
    /\ risk_per_trade = Rat(2, 100)
    /\ stop_loss_pct = Rat(2, 100)
    /\ take_profit_pct = Rat(4, 100)
    /\ pc = "off"
    /\ symbol = ""
    /\ n = 0
    /\ i = 0
    /\ result = None
    /\ klines = <<>>
    /\ df = <<>>
    /\ out = <<>>
    /\ fpc = "off"
    /\ tape = None
    /\ previous = None
    /\ CascadeOff
    /\ ServerOff

\* trade.py lines 80-89: a placed order is stored as a Trade row
StoreTrade(sym, side, size, price) ==
    /\ mpc = "db"
    /\ Len(trade_rows) < MaxRows
    /\ trade_rows' = Append(trade_rows,
                            [symbol |-> Upper(sym), side |-> Upper(side),
                             size |-> size, price |-> price,
                             ts |-> RowTs(Len(trade_rows) + 1)])
    /\ UNCHANGED <<positions, realised_pnl, hold_times, idx, mpc, response, run,
                   feature, tape, previous, server, cascade>>

\* metrics.py lines 150-161 and 93-95: the rows are read in ts order; no row at
\* all returns the empty metrics at once
Query ==
    /\ mpc = "db"
    /\ positions' = <<>>
    /\ realised_pnl' = <<>>
    /\ hold_times' = <<>>
    /\ idx' = 0
    /\ IF trade_rows = <<>>
       THEN /\ response' = [ok |-> TRUE,
                            metrics |-> [total_realised_pnl |-> Zero, symbols |-> <<>>]]
            /\ mpc' = "done"
       ELSE /\ response' = response
            /\ mpc' = "match"
    /\ UNCHANGED <<trade_rows, run, feature, tape, previous, server, cascade>>

\* the loop without the test on positions[symbol]: it would read a lot that is
\* not there, so the rest of the sell is booked against a lot of price 0
RECURSIVE MatchSellShort(_, _, _, _, _, _)
MatchSellShort(lots, qty_to_sell, sell_price, sell_ts, pnl, holds) ==
    IF ~RGt(qty_to_sell, Zero)
    THEN [lots |-> lots, pnl |-> pnl, holds |-> holds]
    ELSE IF lots = <<>>
    THEN [lots |-> lots, pnl |-> RAdd(pnl, RMul(sell_price, qty_to_sell)),
          holds |-> holds]
    ELSE LET buy          == lots[1]
             matched_size == RMin(qty_to_sell, buy.size)
             left         == RSub(buy.size, matched_size)
         IN  MatchSellShort(IF RLe(left, Zero) THEN Tail(lots)
                            ELSE <<[buy EXCEPT !.size = left]>> \o Tail(lots),
                            RSub(qty_to_sell, matched_size), sell_price, sell_ts,
                            RAdd(pnl, RMul(RSub(sell_price, buy.price), matched_size)),
                            Append(holds, sell_ts - buy.ts))

\* the loop taking the newest lot, positions[symbol][-1], first
RECURSIVE MatchSellLifo(_, _, _, _, _, _)
MatchSellLifo(lots, qty_to_sell, sell_price, sell_ts, pnl, holds) ==
    IF ~(RGt(qty_to_sell, Zero) /\ lots # <<>>)
    THEN [lots |-> lots, pnl |-> pnl, holds |-> holds]
    ELSE LET buy          == lots[Len(lots)]
             matched_size == RMin(qty_to_sell, buy.size)
             left         == RSub(buy.size, matched_size)
             front        == SubSeq(lots, 1, Len(lots) - 1)
         IN  MatchSellLifo(IF RLe(left, Zero) THEN front
                           ELSE front \o <<[buy EXCEPT !.size = left]>>,
                           RSub(qty_to_sell, matched_size), sell_price, sell_ts,
                           RAdd(pnl, RMul(RSub(sell_price, buy.price), matched_size)),
                           Append(holds, sell_ts - buy.ts))

\* metrics.py lines 115-129: the while loop of one SELL over the lots of its
\* symbol, oldest first; pnl and holds are realised_pnl[symbol] and hold_times
RECURSIVE MatchSell(_, _, _, _, _, _)
MatchSell(lots, qty_to_sell, sell_price, sell_ts, pnl, holds) ==
    IF ~(RGt(qty_to_sell, Zero) /\ lots # <<>>)
    THEN [lots |-> lots, pnl |-> pnl, holds |-> holds]
    ELSE LET buy          == lots[1]
             matched_size == RMin(qty_to_sell, buy.size)
             left         == RSub(buy.size, matched_size)
         IN  MatchSell(IF RLe(left, Zero) THEN Tail(lots)
                       ELSE <<[buy EXCEPT !.size = left]>> \o Tail(lots),
                       RSub(qty_to_sell, matched_size), sell_price, sell_ts,
                       RAdd(pnl, RMul(RSub(sell_price, buy.price), matched_size)),
                       Append(holds, sell_ts - buy.ts))

\* metrics.py lines 97-131: one iteration of "for trade in trades"
ProcessTrade ==
    /\ mpc = "match"
    /\ idx < Len(trade_rows)
    /\ LET trade == trade_rows[idx + 1]
           sym   == Upper(trade.symbol)
           pnl0  == SetDefault(realised_pnl, sym, Zero)
           pos0  == SetDefault(positions, sym, <<>>)
       IN  IF Upper(trade.side) = "BUY"
           THEN /\ positions' = Put(pos0, sym,
                                    Append(pos0[sym], [size |-> trade.size,
                                                       price |-> trade.price,
                                                       ts |-> trade.ts]))
                /\ realised_pnl' = pnl0
                /\ hold_times' = hold_times
           ELSE IF Upper(trade.side) = "SELL"
           THEN LET m == MatchSell(pos0[sym], trade.size, trade.price, trade.ts,
                                   pnl0[sym], hold_times)
                IN  /\ positions' = Put(pos0, sym, m.lots)
                    /\ realised_pnl' = Put(pnl0, sym, m.pnl)
                    /\ hold_times' = m.holds
           ELSE /\ positions' = pos0
                /\ realised_pnl' = pnl0
                /\ hold_times' = hold_times
    /\ idx' = idx + 1
    /\ UNCHANGED <<trade_rows, mpc, response, run, feature, tape, previous, server, cascade>>

RECURSIVE Sum(_)
Sum(s) == IF s = <<>> THEN 0 ELSE s[1] + Sum(Tail(s))

RowsOf(rows, sym) == SelectSeq(rows, LAMBDA t : Upper(t.symbol) = sym)

SizesOf(rows, sym, side) ==
    LET picked == SelectSeq(RowsOf(rows, sym), LAMBDA t : Upper(t.side) = side)
    IN  [k \in 1 .. Len(picked) |-> picked[k].size]

\* metrics.py line 184
AverageHoldSeconds(holds) ==
    IF holds # <<>> THEN RDiv(Rat(Sum(holds), Len(holds)), R(1000)) ELSE Zero

RECURSIVE SumOfValues(_)
SumOfValues(dict) ==
    IF DOMAIN dict = {} THEN Zero
    ELSE LET key == CHOOSE k \in DOMAIN dict : TRUE
         IN  RAdd(dict[key], SumOfValues([k \in DOMAIN dict \ {key} |-> dict[k]]))

\* metrics.py lines 163-196
Respond ==
    /\ mpc = "match"
    /\ idx = Len(trade_rows)
    /\ response' =
         [ok |-> TRUE,
          metrics |->
            [total_realised_pnl |-> SumOfValues(realised_pnl),
             symbols |->
               [sym \in {Upper(trade_rows[k].symbol) : k \in 1 .. Len(trade_rows)} |->
                  [realised_pnl |-> realised_pnl[sym],
                   buy_volume |-> RSum(SizesOf(trade_rows, sym, "BUY")),
                   sell_volume |-> RSum(SizesOf(trade_rows, sym, "SELL")),
                   trades_count |-> Len(RowsOf(trade_rows, sym)),
                   average_hold_seconds |-> AverageHoldSeconds(hold_times)]]]]
    /\ mpc' = "done"
    /\ UNCHANGED <<trade_rows, positions, realised_pnl, hold_times, idx, run, feature,
                   tape, previous, server, cascade>>

NextLedger ==
    \/ \E sym \in RequestSymbols, side \in RequestSides, size \in RowSizes,
          price \in RowPrices : StoreTrade(sym, side, size, price)
    \/ Query
    \/ ProcessTrade
    \/ Respond

SpecLedger == InitLedger /\ [][NextLedger]_vars

(***************************************************************************)
(* Properties of the realised-P&L matching and of the trade metrics.       *)
(***************************************************************************)
\* the step processes one row of the query; Row is that row
Matched == mpc = "match" /\ idx' = idx + 1

Row == trade_rows[idx + 1]

\* the unmatched lots of a symbol, none when the symbol was never seen
LotsOf(pos, sym) == IF sym \in DOMAIN pos THEN pos[sym] ELSE <<>>

PnlAt(map, sym) == IF sym \in DOMAIN map THEN map[sym] ELSE Zero

SizeOfLots(lots) == RSum([k \in 1 .. Len(lots) |-> lots[k].size])

\* the quantity of lot k a sell of qty takes when the lots are consumed oldest
\* first: what is left of qty after the lots before k, up to the lot's size
Taken(lots, qty, k) ==
    RMin(lots[k].size, RMax(Zero, RSub(qty, SizeOfLots(SubSeq(lots, 1, k - 1)))))

FifoPnl(lots, qty, price) ==
    RSum([k \in 1 .. Len(lots) |->
            RMul(RSub(price, lots[k].price), Taken(lots, qty, k))])

FifoRest(lots, qty) ==
    SelectSeq([k \in 1 .. Len(lots) |->
                 [lots[k] EXCEPT !.size = RSub(@, Taken(lots, qty, k))]],
              LAMBDA lot : RGt(lot.size, Zero))

OtherSymbolsKept(sym) ==
    \A other \in (DOMAIN positions' \cup DOMAIN positions) \ {sym} :
        /\ LotsOf(positions', other) = LotsOf(positions, other)
        /\ PnlAt(realised_pnl', other) = PnlAt(realised_pnl, other)

\* C14: a SELL consumes the unmatched BUY lots of its own symbol oldest first:
\* it adds (sell price - lot price) * matched quantity per lot to the realised
\* P&L of the symbol, leaves the rest of the lots in their order, and touches
\* no lot and no P&L of another symbol.  For fills b1, b2, s1 of one symbol
\* with s1.size = b1.size the realised P&L is (s1.price - b1.price) * b1.size
\* and b2 is left whole.
C14_FifoMatching ==
    [][/\ Matched /\ Row.side = "SELL"
          => LET lots == LotsOf(positions, Row.symbol)
             IN  /\ PnlAt(realised_pnl', Row.symbol)
                      = RAdd(PnlAt(realised_pnl, Row.symbol),
                             FifoPnl(lots, Row.size, Row.price))
                 /\ LotsOf(positions', Row.symbol) = FifoRest(lots, Row.size)
                 /\ OtherSymbolsKept(Row.symbol)
       /\ /\ mpc' = "done" /\ Len(trade_rows) = 3
          /\ \A k \in 1 .. 3 : trade_rows[k].symbol = trade_rows[1].symbol
          /\ trade_rows[1].side = "BUY" /\ trade_rows[2].side = "BUY"
          /\ trade_rows[3].side = "SELL" /\ trade_rows[3].size = trade_rows[1].size
          => /\ realised_pnl'[trade_rows[1].symbol]
                  = RMul(RSub(trade_rows[3].price, trade_rows[1].price),
                         trade_rows[1].size)
             /\ positions'[trade_rows[1].symbol]
                  = <<[size |-> trade_rows[2].size, price |-> trade_rows[2].price,
                       ts |-> trade_rows[2].ts]>>]_vars

\* the fills b1, b2, s1 of one symbol with s1.size = b1.size and b1, b2 bought
\* at different prices were matched: b1's profit is realised, b2 is whole
C14_Witness ==
    /\ mpc = "done" /\ Len(trade_rows) = 3
    /\ \A k \in 1 .. 3 : trade_rows[k].symbol = "BTCUSDT"
    /\ trade_rows[1].side = "BUY" /\ trade_rows[2].side = "BUY"
    /\ trade_rows[3].side = "SELL" /\ trade_rows[3].size = trade_rows[1].size
    /\ trade_rows[1].price = R(9) /\ trade_rows[2].price = R(12)
    /\ trade_rows[3].price = R(12) /\ trade_rows[1].size = R(2)
    /\ realised_pnl["BTCUSDT"] = R(6)
    /\ Len(positions["BTCUSDT"]) = 1 /\ positions["BTCUSDT"][1].ts = RowTs(2)

\* C15: a SELL larger than the unmatched BUY quantity of its symbol (none
\* included) realises P&L on the lots that exist and on nothing else, leaves the
\* symbol with no lot (no lot of negative or zero size is ever kept), raises no
\* error, and its excess is gone: a BUY processed later is stored whole and
\* realises nothing.
C15_ExcessSellIgnored ==
    [][/\ /\ Matched /\ Row.side = "SELL"
          /\ RGt(Row.size, SizeOfLots(LotsOf(positions, Row.symbol)))
          => LET lots == LotsOf(positions, Row.symbol)
             IN  /\ PnlAt(realised_pnl', Row.symbol)
                      = RAdd(PnlAt(realised_pnl, Row.symbol),
                             RSum([k \in 1 .. Len(lots) |->
                                     RMul(RSub(Row.price, lots[k].price),
                                          lots[k].size)]))
                 /\ LotsOf(positions', Row.symbol) = <<>>
                 /\ Len(hold_times') = Len(hold_times) + Len(lots)
                 /\ OtherSymbolsKept(Row.symbol)
       /\ Matched /\ Row.side = "BUY"
          => /\ positions'[Row.symbol]
                  = Append(LotsOf(positions, Row.symbol),
                           [size |-> Row.size, price |-> Row.price, ts |-> Row.ts])
             /\ PnlAt(realised_pnl', Row.symbol) = PnlAt(realised_pnl, Row.symbol)
             /\ hold_times' = hold_times
       /\ \A sym \in DOMAIN positions' : \A k \in 1 .. Len(positions'[sym]) :
             RGt(positions'[sym][k].size, Zero)
       /\ mpc = "match" => mpc' \in {"match", "done"}]_vars

\* a BUY of 1 at 9, a SELL of 2 at 12 and a BUY of 1 were processed: the SELL
\* realised 3 on the one unit there was, and the later BUY is unmatched
C15_Witness ==
    /\ mpc = "done" /\ Len(trade_rows) = 3
    /\ \A k \in 1 .. 3 : trade_rows[k].symbol = "ETHUSDT"
    /\ trade_rows[1].side = "BUY" /\ trade_rows[1].size = R(1)
    /\ trade_rows[1].price = R(9)
    /\ trade_rows[2].side = "SELL" /\ trade_rows[2].size = R(2)
    /\ trade_rows[2].price = R(12)
    /\ trade_rows[3].side = "BUY" /\ trade_rows[3].size = R(1)
    /\ realised_pnl["ETHUSDT"] = R(3)
    /\ response.metrics.total_realised_pnl = R(3)
    /\ positions["ETHUSDT"] = <<[size |-> R(1), price |-> trade_rows[3].price,
                                 ts |-> RowTs(3)]>>

\* the hold times of the pairs matched among the given rows, which are the rows
\* of one symbol in ts order
RECURSIVE HoldsFrom(_, _, _)
HoldsFrom(rows, lots, holds) ==
    IF rows = <<>> THEN holds
    ELSE LET t == Head(rows)
         IN  IF t.side = "BUY"
             THEN HoldsFrom(Tail(rows),
                            Append(lots, [size |-> t.size, price |-> t.price,
                                          ts |-> t.ts]), holds)
             ELSE LET m == MatchSell(lots, t.size, t.price, t.ts, Zero, holds)
                  IN  HoldsFrom(Tail(rows), m.lots, m.holds)

\* C16: the average_hold_seconds reported for a symbol is the mean of (sell ts -
\* buy ts) / 1000 over the matched pairs of that symbol, and 0 when the symbol
\* has no matched pair.
C16_HoldTimePerSymbol ==
    mpc = "done" =>
        \A sym \in DOMAIN response.metrics.symbols :
            LET holds == HoldsFrom(RowsOf(trade_rows, sym), <<>>, <<>>)
            IN  response.metrics.symbols[sym].average_hold_seconds
                  = IF holds = <<>> THEN Zero
                    ELSE RDiv(Rat(Sum(holds), Len(holds)), R(1000))

(***************************************************************************)
(* Properties of the performance report (_calculate_performance).          *)
(***************************************************************************)
\* the step is the end of a run: the metrics are computed and returned
Finished == pc = "loop" /\ pc' = "done"

\* the closing records of the log, in log order
Closings(log) == SelectSeq(log, LAMBDA t : t.side = "SELL")

\* the sum of the profits of the closing records, and the sum of the sizes of
\* their losses
GrossProfit(log) ==
    RSum(PnlOf(SelectSeq(Closings(log), LAMBDA t : RGt(t.pnl, Zero))))

GrossLoss(log) ==
    RNeg(RSum(PnlOf(SelectSeq(Closings(log), LAMBDA t : ~RGt(t.pnl, Zero)))))

\* C17: profit_factor is gross_profit / gross_loss when gross_loss > 0, +infinity
\* when gross_loss = 0 and gross_profit > 0, and 0 when the run closed no trade.
C17_ProfitFactor ==
    [][Finished
        => LET pf == performance_metrics'.profit_factor
               gp == GrossProfit(trades)
               gl == GrossLoss(trades)
           IN  /\ result'.metrics = performance_metrics'
               /\ RGt(gl, Zero) => pf = RDiv(gp, gl)
               /\ gl = Zero /\ RGt(gp, Zero) => pf = Inf
               /\ Closings(trades) = <<>> => pf = Zero]_vars

\* a run has ended whose closes were all profitable: the factor is +infinity
C17_Witness ==
    /\ pc = "done"
    /\ Len(Closings(trades)) = 2
    /\ \A k \in 1 .. 2 : RGt(Closings(trades)[k].pnl, Zero)
    /\ result.metrics.profit_factor = Inf

\* the running balance curve of the log: the initial balance, then the balance
\* after every close
Curve(log, initial) ==
    <<initial>> \o [k \in 1 .. Len(Closings(log)) |-> Closings(log)[k].balance_after]

\* the highest balance of the curve up to point t
Peak(curve, t) ==
    CHOOSE x \in {curve[s] : s \in 1 .. t} : \A s \in 1 .. t : RGe(x, curve[s])

\* the fall at point t relative to the peak up to t
DrawdownAt(curve, t) == RDiv(RSub(Peak(curve, t), curve[t]), Peak(curve, t))

\* C18: max_drawdown is the largest of (peak up to t - balance at t) / peak up
\* to t over the points t of the balance curve, which starts at the initial
\* balance; it is never negative, and it is 0 exactly when no balance of the
\* curve is below an earlier one.
C18_MaxDrawdown ==
    [][Finished
        => LET md    == performance_metrics'.max_drawdown
               curve == Curve(trades, initial_balance)
           IN  /\ \E t \in 1 .. Len(curve) : md = DrawdownAt(curve, t)
               /\ \A t \in 1 .. Len(curve) : RGe(md, DrawdownAt(curve, t))
               /\ RGe(md, Zero)
               /\ md = Zero <=> \A s, t \in 1 .. Len(curve) :
                                    s < t => RGe(curve[t], curve[s])]_vars

\* a run has ended whose balance rose above the initial balance and then fell:
\* the drawdown is measured from that peak
C18_Witness ==
    /\ pc = "done"
    /\ Len(Closings(trades)) = 2
    /\ RGt(Closings(trades)[1].balance_after, initial_balance)
    /\ RLt(Closings(trades)[2].balance_after, initial_balance)
    /\ result.metrics.max_drawdown
         = RDiv(RSub(Closings(trades)[1].balance_after,
                     Closings(trades)[2].balance_after),
                Closings(trades)[1].balance_after)

(***************************************************************************)
(* SpecCascade: _generate_signal (lines 184-221) on one row of indicator   *)
(* values, the row df.iloc[-1] of some bar.                                *)
(***************************************************************************)
\* a - b in floats: NaN when a side is NaN
FSub(x, y) == IF x = NaN \/ y = NaN THEN NaN ELSE RSub(x, y)

RsiValues == {NaN, R(20), R(50), R(80)}

CloseValues == {R(8), R(10), R(12)}

\* sma_20 and bb_middle are the same rolling mean (lines 152, 164)
Sma20Value == R(10)

Sma50Values == {NaN, R(9), R(10), R(11)}

MacdValues == {R(-1), Zero, One}

MacdSignalValues == {NaN, Zero}

\* bb_std squared: the bands are bb_middle -+ 1 and bb_middle -+ 4
BbVarValues == {NaN, Rat(1, 4), R(4)}

CascadeRows ==
    {[close       |-> close,
      rsi         |-> rsi,
      sma_20      |-> Sma20Value,
      sma_50      |-> sma_50,
      sma_200     |-> NaN,
      ema_12      |-> RAdd(close, macd),
      ema_26      |-> close,
      macd        |-> macd,
      macd_signal |-> macd_signal,
      macd_hist   |-> FSub(macd, macd_signal),
      bb_middle   |-> Sma20Value,
      bb_var      |-> bb_var,
      momentum    |-> Zero] :
        close \in CloseValues, rsi \in RsiValues, sma_50 \in Sma50Values,
        macd \in MacdValues, macd_signal \in MacdSignalValues, bb_var \in BbVarValues}

InitCascade ==
    /\ last_row \in CascadeRows
    /\ verdict = ""
    /\ LedgerOff
    /\ trades = <<>>
    /\ signals = <<>>
    /\ performance_metrics = <<>>
    /\ initial_balance = R(10000)
    /\ current_balance = Zero
    /\ position = None
    /\ position_size = Zero
    /\ risk_per_trade = Rat(2, 100)
    /\ stop_loss_pct = Rat(2, 100)
    /\ take_profit_pct = Rat(4, 100)
    /\ pc = "off"
    /\ symbol = ""
    /\ n = 0
    /\ i = 0
    /\ result = None
    /\ klines = <<>>
    /\ df = <<>>
    /\ out = <<>>
    /\ fpc = "off"
    /\ tape = None
    /\ previous = None
    /\ ServerOff

\* lines 184-217: the call on the row
Decide ==
    /\ verdict = ""
    /\ verdict' = GenerateSignal(last_row)
    /\ UNCHANGED <<last_row, run, feature, tape, previous, server, ledger>>

NextCascade == Decide

SpecCascade == InitCascade /\ [][NextCascade]_vars

(***************************************************************************)
(* Properties of the rule cascade.                                         *)
(***************************************************************************)
\* what rule k of the cascade says about the row on its own: BUY, SELL, or NONE
\* when it does not fire
RuleSays(k, row) ==
    CASE k = 1 -> RsiRule(row, "NONE")
      [] k = 2 -> MaRule(row, "NONE")
      [] k = 3 -> MacdRule(row, "NONE")
      [] k = 4 -> BollingerRule(row, "NONE")

Fired(row) == {k \in 1 .. 4 : RuleSays(k, row) # "NONE"}

\* the rule that fired last in the order RSI, moving average, MACD, Bollinger
LastFired(row) == CHOOSE k \in Fired(row) : \A j \in Fired(row) : j <= k

\* C19: the signal of a row is what the last rule that fired says, in the order
\* RSI, moving average, MACD, Bollinger; it is HOLD when none fired, and always
\* one of BUY, SELL, HOLD.
C19_LastRuleWins ==
    verdict # ""
        => /\ verdict \in {"BUY", "SELL", "HOLD"}
           /\ verdict = IF Fired(last_row) = {} THEN "HOLD"
                        ELSE RuleSays(LastFired(last_row), last_row)

\* all four rules fired on the row, the RSI rule for BUY and the Bollinger rule
\* for SELL: the signal is SELL
C19_Witness ==
    /\ verdict = "SELL"
    /\ Fired(last_row) = 1 .. 4
    /\ RuleSays(1, last_row) = "BUY" /\ RuleSays(2, last_row) = "BUY"
    /\ RuleSays(3, last_row) = "SELL" /\ RuleSays(4, last_row) = "SELL"

\* the columns the four rules read
RuleInputs ==
    {"rsi", "sma_20", "sma_50", "close", "macd", "macd_signal", "macd_hist",
     "bb_middle", "bb_var"}

\* C20: the signal of a row is HOLD when no rule fires, and when a column that a
\* rule reads is undefined (NaN) in the row.
C20_UndefinedHolds ==
    /\ verdict # ""
    /\ \/ Fired(last_row) = {}
       \/ \E col \in RuleInputs : last_row[col] = NaN
    => verdict = "HOLD"

(***************************************************************************)
(* Properties of a whole run: parameters, replay order, ledger.            *)
(***************************************************************************)
\* the parameters of a request are usable: a positive balance and percentages
\* in (0, 1]
ValidRequest(prm) ==
    /\ RGt(prm.initial_balance, Zero)
    /\ ValidPct(prm.risk_per_trade)
    /\ ValidPct(prm.stop_loss_pct)
    /\ ValidPct(prm.take_profit_pct)

\* C23: a run requested with a non-positive initial_balance, or with a
\* percentage parameter outside (0, 1], ends in an error before any bar is
\* replayed: it logs no signal and no trade.
C23_InvalidParametersRejected ==
    [][/\ (Started /\ ~ValidRequest(tape'.prm))
          => pc' = "error" /\ signals' = <<>> /\ trades' = <<>>
       /\ Replayed => ValidRequest(tape.prm)]_vars

\* C26: a run over n candles replays the bars 100 .. n-1 once each in increasing
\* open_time order: bar i appends one signal record with that bar's open time
\* and close, a record the bar appends to the trade log carries the timestamp
\* and price of that signal, every trade record has its signal in the signal
\* log, and the finished run holds n - 100 signals, the k-th of bar 100 + k - 1.
C26_ReplayOrder ==
    [][/\ Replayed =>
             /\ signals' = Append(signals, Bar)
             /\ Bar.timestamp = OpenTime(i)
             /\ i' = i + 1
             /\ signals # <<>> => Last(signals).timestamp < Bar.timestamp
             /\ Len(trades') <= Len(trades) + 1
             /\ trades' # trades =>
                   /\ Last(trades').timestamp = Bar.timestamp
                   /\ Last(trades').price = Bar.price
       /\ pc = "loop" =>
             \A k \in 1 .. Len(trades') :
                \E j \in 1 .. Len(signals') :
                   /\ signals'[j].timestamp = trades'[k].timestamp
                   /\ signals'[j].price = trades'[k].price
       /\ Finished =>
             /\ Len(signals') = n - WarmUp
             /\ Len(result'.signals) = n - WarmUp
             /\ \A k \in 1 .. Len(signals') :
                   signals'[k].timestamp = OpenTime(WarmUp + k - 1)]_vars

\* a finished run of three bars or more whose last bar closed a position
C26_Witness ==
    /\ pc = "done"
    /\ Len(signals) >= 3
    /\ trades # <<>>
    /\ Last(trades).side = "SELL"
    /\ Last(trades).timestamp = Last(signals).timestamp
    /\ Last(trades).timestamp = OpenTime(n - 1)

\* the pnl booked on the CLOSED records of a log, in the order of the log
BookedPnl(log) == RSum([k \in 1 .. Len(Closings(log)) |-> Closings(log)[k].pnl])

\* C27: at every point of a run current_balance = initial_balance + the sum of
\* pnl over the CLOSED records of the trade log, each record's balance_before is
\* the balance_after of the record before it (the initial balance for the first
\* record), and the profit_loss of a returned result is the sum of booked pnl.
C27_BalanceIsBookedPnl ==
    pc \in {"loop", "done"} =>
        /\ current_balance = RAdd(initial_balance, BookedPnl(trades))
        /\ \A k \in 1 .. Len(trades) :
              trades[k].balance_before =
                 IF k = 1 THEN initial_balance ELSE trades[k - 1].balance_after
        /\ pc = "done" =>
              /\ result.profit_loss = BookedPnl(result.trades)
              /\ result.final_balance = current_balance

\* a finished run that booked a loss and then a gain
C27_Witness ==
    /\ pc = "done"
    /\ Len(trades) >= 4
    /\ RLt(trades[2].pnl, Zero)
    /\ RGt(trades[4].pnl, Zero)
    /\ result.profit_loss # Zero

\* C28: the trade log alternates BUY (OPEN), SELL (CLOSED), starting with a BUY,
\* with strictly increasing timestamps; a position is open exactly when the
\* last record is a BUY, its entry_price, size and entry_time are that record's
\* price, quantity and timestamp, and the quantity of a SELL record is the
\* quantity of the BUY record before it.
C28_LogAlternates ==
    /\ \A k \in 1 .. Len(trades) :
          /\ k % 2 = 1 => trades[k].side = "BUY" /\ trades[k].status = "OPEN"
          /\ k % 2 = 0 =>
                /\ trades[k].side = "SELL" /\ trades[k].status = "CLOSED"
                /\ trades[k].quantity = trades[k - 1].quantity
          /\ k > 1 => trades[k - 1].timestamp < trades[k].timestamp
    /\ position # None <=> (trades # <<>> /\ Last(trades).side = "BUY")
    /\ position # None =>
          /\ position.entry_price = Last(trades).price
          /\ position.size = Last(trades).quantity
          /\ position.entry_time = Last(trades).timestamp

\* a position is open after a round trip that changed the balance
C28_Witness ==
    /\ position # None
    /\ Len(trades) = 3
    /\ position.entry_time = Last(trades).timestamp
    /\ position.size # trades[1].quantity

\* C29: the reason of a CLOSED record fits the bar that wrote it: STOP_LOSS only
\* with price <= stop_loss (a loss when stop_loss_pct is in (0, 1]),
\* TAKE_PROFIT only with price >= take_profit and price > stop_loss (a gain
\* when both percentages are in (0, 1]), SIGNAL only with a SELL signal and
\* stop_loss < price < take_profit.
C29_ReasonFitsBar ==
    [][(Replayed /\ position # None /\ trades' # trades) =>
        LET rec == Last(trades')
        IN  /\ rec.reason = "STOP_LOSS" =>
                  /\ RLe(Bar.price, position.stop_loss)
                  /\ ValidPct(stop_loss_pct) => RLt(rec.pnl, Zero)
            /\ rec.reason = "TAKE_PROFIT" =>
                  /\ RGe(Bar.price, position.take_profit)
                  /\ RGt(Bar.price, position.stop_loss)
                  /\ (ValidPct(stop_loss_pct) /\ ValidPct(take_profit_pct))
                        => RGt(rec.pnl, Zero)
            /\ rec.reason = "SIGNAL" =>
                  /\ Bar.signal = "SELL"
                  /\ RLt(position.stop_loss, Bar.price)
                  /\ RLt(Bar.price, position.take_profit)]_vars

\* the log holds a stop-loss close and a close on a SELL signal, written with
\* percentages in (0, 1]
C29_Witness ==
    /\ ValidPct(stop_loss_pct) /\ ValidPct(take_profit_pct)
    /\ \A reason \in {"STOP_LOSS", "SIGNAL"} :
          \E k \in 1 .. Len(trades) :
             trades[k].side = "SELL" /\ trades[k].reason = reason

(***************************************************************************)
(* SpecReplay: one run of run_backtest on the candles of a provider: the   *)
(* features of line 72 and the signal of line 80 feed the loop.            *)
(***************************************************************************)
\* candles after the warm-up prefix that the provider returns, at most
MaxReplayBars == 1

\* lines 26-29: the defaults of run_backtest
DefaultParams ==
    [initial_balance |-> R(10000), risk_per_trade |-> Rat(2, 100),
     stop_loss_pct |-> Rat(2, 100), take_profit_pct |-> Rat(4, 100)]

ReplayParams == ParamSets \cup {DefaultParams}

InitReplay ==
    /\ trades = <<>>
    /\ signals = <<>>
    /\ performance_metrics = <<>>
    /\ initial_balance = R(10000)
    /\ current_balance = Zero
    /\ position = None
    /\ position_size = Zero
    /\ risk_per_trade = Rat(2, 100)
    /\ stop_loss_pct = Rat(2, 100)
    /\ take_profit_pct = Rat(4, 100)
    /\ pc = "idle"
    /\ symbol = ""
    /\ n = 0
    /\ i = 0
    /\ result = None
    /\ \E base \in Closes : klines = <<[flat |-> base, later |-> <<>>]>>
    /\ df = <<>>
    /\ out = <<>>
    /\ fpc = "data"
    /\ tape = None
    /\ previous = None
    /\ LedgerOff
    /\ CascadeOff
    /\ ServerOff

\* the provider's history has one more candle
Fetch(close) ==
    /\ pc = "idle"
    /\ fpc = "data"
    /\ Len(klines[1].later) < MaxReplayBars
    /\ klines' = <<[klines[1] EXCEPT !.later = Append(@, close)]>>
    /\ UNCHANGED <<df, out, fpc, run, tape, previous, server, ledger, cascade>>

\* lines 47-69 on the provider's candles
RunReplay(prm, sym) ==
    /\ fpc = "data"
    /\ RunStart(prm, sym, Len(CloseColumn(klines[1])), TRUE)

\* line 72
PrepareRun ==
    /\ pc = "loop"
    /\ fpc = "data"
    /\ df' = <<PrepareFeatures(CloseColumn(klines[1]))>>
    /\ fpc' = "features"
    /\ UNCHANGED <<klines, out, run, tape, previous, server, ledger, cascade>>

\* lines 75-92: the bar of index i, its signal generated from its row of the frame
StepReplay ==
    /\ fpc = "features"
    /\ pc = "loop"
    /\ i < n
    /\ LET row == df[1][i - WarmUp + 1]
       IN  Step(row.close, GenerateSignal(row))

\* lines 94-106
FinishReplay == fpc = "features" /\ Finish

NextReplay ==
    \/ \E close \in Closes : Fetch(close)
    \/ \E prm \in ReplayParams, sym \in Symbols : RunReplay(prm, sym)
    \/ PrepareRun
    \/ StepReplay
    \/ FinishReplay

SpecReplay == InitReplay /\ [][NextReplay]_vars

\* every candle of the run's history closes at the same price
FlatHistory == \A k \in 1 .. Len(klines[1].later) : klines[1].later[k] = klines[1].flat

\* C22: in a run over candles that all close at the same price, every replayed
\* bar gets the signal HOLD and no trade is recorded: the trade log, the
\* returned trades and total_trades are empty or zero.
C22_FlatHistoryHolds ==
    (pc \in {"loop", "done"} /\ FlatHistory) =>
        /\ \A k \in 1 .. Len(signals) : signals[k].signal = "HOLD"
        /\ trades = <<>>
        /\ position = None
        /\ pc = "done" =>
              /\ Len(signals) = n - WarmUp
              /\ result.trades = <<>>
              /\ result.final_balance = initial_balance
              /\ performance_metrics.total_trades = 0

\* a run with the default parameters replayed a bar of a flat history
C22_Witness ==
    /\ pc = "done"
    /\ FlatHistory
    /\ tape.prm = DefaultParams
    /\ Len(signals) = MaxReplayBars
    /\ Last(signals).signal = "HOLD"
    /\ Last(signals).price = klines[1].flat

(***************************************************************************)
(* SpecFault: a run in which a call made for a bar raises: the except      *)
(* clauses of _generate_signal (lines 219-221) and _execute_trade (lines   *)
(* 341-342) take over.                                                     *)
(***************************************************************************)
\* where the exception is raised: in _generate_signal, or in _execute_trade
\* before its first assignment
Faults == {"signal", "trade"}

\* lines 75-92, one iteration in which a call raises: _generate_signal logs the
\* error and returns HOLD (line 221); _execute_trade logs the error and returns
\* (line 342); the loop goes on with the next bar
StepFault(close, signal, fault) ==
    /\ pc = "loop"
    /\ i < n
    /\ LET signal_data == [timestamp |-> OpenTime(i), symbol |-> symbol,
                           signal |-> IF fault = "signal" THEN "HOLD" ELSE signal,
                           price |-> close]
       IN  /\ signals' = Append(signals, signal_data)
           /\ IF fault = "trade" THEN UNCHANGED engine ELSE ExecuteTrade(signal_data)
    /\ i' = i + 1
    /\ tape' = [tape EXCEPT !.bars = Append(@, [close |-> close, signal |-> signal,
                                                  fault |-> fault])]
    /\ UNCHANGED <<performance_metrics, params, pc, result, feature, previous, server, ledger,
                   cascade>>

NextFault ==
    \/ \E prm \in ParamSets, sym \in Symbols, count \in RerunCounts,
          columns_ok \in BOOLEAN : RunStart(prm, sym, count, columns_ok)
    \/ \E close \in RerunCloses, signal \in RerunSignals : Step(close, signal)
    \/ \E close \in RerunCloses, signal \in RerunSignals, fault \in Faults :
          StepFault(close, signal, fault)
    \/ Finish

SpecFault == Init /\ [][NextFault]_vars

\* a call raised while the bar was processed
Faulted(bar) == "fault" \in DOMAIN bar

\* C24: a bar whose processing faults ends the run with an error: no later bar
\* is replayed, and no run returns success after a fault of one of its bars.
C24_FaultAborts ==
    [][/\ (Replayed /\ Faulted(Last(tape'.bars)))
          => pc' = "error" /\ "error" \in DOMAIN result'
       /\ Replayed => \A k \in 1 .. Len(tape.bars) : ~Faulted(tape.bars[k])
       /\ Finished => \A k \in 1 .. Len(tape.bars) : ~Faulted(tape.bars[k])]_vars

(***************************************************************************)
(* SpecAgree: the trade log of a finished run handed, record by record, to *)
(* _calculate_realised_pnl_and_hold_times (routes/metrics.py, lines        *)
(* 77-133), which reads symbol, side, size, price and ts of each trade.    *)
(***************************************************************************)
\* mutant: the size of the row taken from the record's value
AsTradeRowOfValue(rec) ==
    [symbol |-> rec.symbol, side |-> rec.side, size |-> rec.value,
     price |-> rec.price, ts |-> rec.timestamp]

\* a record of the engine's trade log as the trade the accountant reads: size is
\* the record's quantity, ts its timestamp
AsTradeRow(rec) ==
    [symbol |-> rec.symbol, side |-> rec.side, size |-> rec.quantity,
     price |-> rec.price, ts |-> rec.timestamp]

\* metrics.py lines 93-95: the accountant is called with the returned trade log
Feed ==
    /\ pc = "done"
    /\ mpc = "off"
    /\ trade_rows' = [k \in 1 .. Len(result.trades) |-> AsTradeRow(result.trades[k])]
    /\ positions' = <<>>
    /\ realised_pnl' = <<>>
    /\ hold_times' = <<>>
    /\ idx' = 0
    /\ mpc' = "match"
    /\ UNCHANGED <<response, run, feature, tape, previous, server, cascade>>

NextAgree ==
    \/ \E prm \in ParamSets, sym \in Symbols, count \in FairCounts,
          columns_ok \in BOOLEAN : RunStart(prm, sym, count, columns_ok)
    \/ \E close \in FairCloses, signal \in Signals : Step(close, signal)
    \/ Finish
    \/ Feed
    \/ ProcessTrade

SpecAgree == Init /\ [][NextAgree]_vars

\* the accountant has processed every record of the log
Accounted == mpc = "match" /\ idx = Len(trade_rows)

\* realised_pnl.get(sym, 0): a symbol without any trade has no entry
RealisedOf(sym) == IF sym \in DOMAIN realised_pnl THEN realised_pnl[sym] ELSE Zero

\* the BUY lots the accountant has left unmatched for the symbol
LotsLeft(sym) == IF sym \in DOMAIN positions THEN positions[sym] ELSE <<>>

Requests == {1, 2}

\* bars replayed after the warm-up index in a run of SpecServe, at most
MaxServeBars == 1

ServeCounts == {MinCandles - 1} \cup (WarmUp .. WarmUp + MaxServeBars)

InitServe ==
    /\ trades = <<>>
    /\ signals = <<>>
    /\ performance_metrics = <<>>
    /\ initial_balance = R(10000)
    /\ current_balance = Zero
    /\ position = None
    /\ position_size = Zero
    /\ risk_per_trade = Rat(2, 100)
    /\ stop_loss_pct = Rat(2, 100)
    /\ take_profit_pct = Rat(4, 100)
    /\ pc = "idle"
    /\ symbol = ""
    /\ n = 0
    /\ i = 0
    /\ result = None
    /\ klines = <<>>
    /\ df = <<>>
    /\ out = <<>>
    /\ fpc = "off"
    /\ tape = None
    /\ previous = None
    /\ LedgerOff
    /\ CascadeOff
    /\ \E body \in [Requests -> ParamSets] :
          inbox = [r \in Requests |-> [state |-> "pending", prm |-> body[r]]]
    /\ replies = [r \in Requests |-> None]

\* a request whose coroutine has started and has not returned
Running == {r \in Requests : inbox[r].state = "running"}

\* mutant: the route started while another request's call of run_backtest is
\* under way, as a route run on a thread of its own would be
AcceptWhileBusy(r) ==
    /\ inbox[r].state = "pending"
    /\ inbox' = [inbox EXCEPT ![r].state = "running"]
    /\ UNCHANGED <<run, feature, tape, previous, ledger, cascade, replies>>

\* routes/backtesting.py lines 24-40: the event loop starts the coroutine of a
\* pending request; it does so only when no other coroutine is running
Accept(r) ==
    /\ Running = {}
    /\ inbox[r].state = "pending"
    /\ inbox' = [inbox EXCEPT ![r].state = "running"]
    /\ UNCHANGED <<run, feature, tape, previous, ledger, cascade, replies>>

\* routes/backtesting.py lines 43-52: run_backtest called with the fields of
\* the request
Call(r, sym, count, columns_ok) ==
    /\ inbox[r].state = "running"
    /\ RunStart(inbox[r].prm, sym, count, columns_ok)

\* routes/backtesting.py lines 54-57: the value the route returns
Body(res) ==
    IF "error" \in DOMAIN res THEN [success |-> FALSE, error |-> res.error] ELSE res

\* routes/backtesting.py lines 54-57: run_backtest has returned and the route
\* returns; tape is kept with the reply as the record of what the run was given
Reply(r) ==
    /\ inbox[r].state = "running"
    /\ pc \in {"done", "error"}
    /\ replies' = [replies EXCEPT ![r] = [tape |-> tape, body |-> Body(result)]]
    /\ inbox' = [inbox EXCEPT ![r].state = "answered"]
    /\ pc' = "idle"
    /\ UNCHANGED <<trades, signals, performance_metrics, engine, params, i, result,
                   tape, feature, previous, ledger, cascade>>

NextServe ==
    \/ \E r \in Requests : Accept(r)
    \/ \E r \in Requests, sym \in Symbols, count \in ServeCounts,
          columns_ok \in BOOLEAN : Call(r, sym, count, columns_ok)
    \/ \E close \in RerunCloses, signal \in RerunSignals : Step(close, signal)
    \/ Finish
    \/ \E r \in Requests : Reply(r)

SpecServe == InitServe /\ [][NextServe]_vars

====
